---- MODULE Spec2Model ----
(***************************************************************************)
(* Model of the payment-channel call flow of src/src/app/page.tsx (the     *)
(* first Home component, lines 58-1034): the React state of the component, *)
(* the closure captured by the interval effect, and the asynchronous       *)
(* handlers handleStartCall, handleEndCall and transferXRP, split at the   *)
(* points where they await the ledger gateway.  The direct-payment variant *)
(* of the page, src/unnamed/part_000, is modelled at the end.              *)
(***************************************************************************)
EXTENDS Integers, Sequences, FiniteSets, Bags, TLC

\* ---- bounds of the model ----
MaxChannels == 1    \* channels that exist or are referred to at once
MaxInFlight == 2    \* transferXRP invocations awaiting the gateway at once
MaxTotal    == 2    \* ticks are started while the total can stay <= MaxTotal
MaxTime     == 1    \* display timer cap
MaxOps      == 1    \* Start Call / End Call handlers awaiting the gateway at once

\* ---- program constants ----
TRANSFER_AMOUNT == 1
ReserveXrp == 10

NoChannel == 0
Channels == 1..MaxChannels

XrpToDrops(a) == a * 1000000

NoClaim == [signature |-> <<NoChannel, 0>>, amount |-> 0]

\* the gateway's channel_authorize: the signature covers (channel_id, amount)
Sign(chan, drops) == <<chan, drops>>

\* the gateway's channel_verify: a signature can only verify for the
\* (channel_id, amount) it was made for
SignatureMatches(sig, chan, drops) == sig = <<chan, drops>>

\* what the gateway can answer to channel_authorize and to channel_verify:
\* a result with or without the field the caller looks for, or an exception
AuthorizeResponses == {"signature", "noSignature", "throw"}
VerifyResponses == {"verified", "notVerified", "missing", "throw"}

\* the channel_authorize request, 524-529
AuthorizeRequest(chan, amount) ==
  [channel_id |-> chan, amount |-> XrpToDrops(amount)]

\* variant: the verify request converts the amount back to XRP
VerifyRequest_InXrp(chan, signature, amount) ==
  [channel_id |-> chan, signature |-> signature, amount |-> amount \div 1000000]

\* the channel_verify request, 562-568: amount is passed on as it was received
VerifyRequest(chan, signature, amount) ==
  [channel_id |-> chan, signature |-> signature, amount |-> amount]

\* the PaymentChannelClaim transaction, 594-602
ClaimTx(chan, signature, amount) ==
  [Channel |-> chan, Amount |-> amount, Balance |-> amount,
   Signature |-> signature]

\* variant: the claim is returned whether or not the response has a signature
authorizePaymentChannelClaim_Unchecked(hasClientAndWallet, chan, amount, resp) ==
  [signature |-> Sign(chan, XrpToDrops(amount)), amount |-> XrpToDrops(amount)]

\* variant: the returned claim carries the amount as it was passed in
authorizePaymentChannelClaim_InXrp(hasClientAndWallet, chan, amount, resp) ==
  IF ~hasClientAndWallet \/ chan = NoChannel \/ resp # "signature" THEN NoClaim
  ELSE [signature |-> Sign(chan, XrpToDrops(amount)), amount |-> amount]

\* authorizePaymentChannelClaim, 514-548, as a function of the render it
\* closed over and of the gateway's answer: null (NoClaim) without client,
\* wallet or channel (515), the claim when the response has a signature
\* (533-538), null when it has none or the request threw (540-546).
authorizePaymentChannelClaim(hasClientAndWallet, chan, amount, resp) ==
  IF ~hasClientAndWallet \/ chan = NoChannel THEN NoClaim
  ELSE IF resp = "signature"
    THEN LET req == AuthorizeRequest(chan, amount)
         IN [signature |-> Sign(req.channel_id, req.amount),
             amount |-> XrpToDrops(amount)]
    ELSE NoClaim

\* variant: every response that is not an explicit refusal counts as verified
verifyPaymentChannelClaim_Lenient(hasClientAndWallet, chan, resp) ==
  hasClientAndWallet /\ chan # NoChannel /\ resp \in {"verified", "missing"}

\* verifyPaymentChannelClaim, 551-585: false without client, wallet or
\* channel (552), true when the response has signature_verified (572-575),
\* false otherwise, also after a caught exception (576-584).
verifyPaymentChannelClaim(hasClientAndWallet, chan, resp) ==
  IF ~hasClientAndWallet \/ chan = NoChannel THEN FALSE
  ELSE resp = "verified"

VARIABLES
  isLoading,             \* useState(true), line 67
  ready,                 \* client, wallet1 and wallet2 are all non-null
  isCallActive,          \* line 59
  time,                  \* line 60
  channelId,             \* line 71 (NoChannel models null)
  totalTransferred,      \* line 72
  lastAuthorizedAmount,  \* line 73
  effect,                \* the intervals of the effect at 706-728 and the render they closed over
  ticks,                 \* bag of transferXRP invocations in flight
  starts,                \* bag of handleStartCall invocations in flight
  ends,                  \* bag of handleEndCall invocations in flight
  ledgerOpen,            \* channels that exist on the ledger
  lastAuth,              \* per channel: amount (drops) of the last claim the gateway authorized
  audit,                 \* what the ticks verified per channel, and how many committed since the last reset
  ev,                    \* what the last step did and which gateway request it issued
  transactions,          \* part_000, line 76: the list of recent transactions
  transfers,             \* part_000: transferXRP invocations in flight
  clock                  \* part_000: Date.now() of the next transfer (145)

vars == <<isLoading, ready, isCallActive, time, channelId, totalTransferred,
          lastAuthorizedAmount, effect, ticks, starts, ends,
          ledgerOpen, lastAuth, audit, ev, transactions, transfers, clock>>

\* the state that only the direct-payment variant has
directVars == <<transactions, transfers, clock>>

EffectOff == [on |-> FALSE, chan |-> NoChannel, total |-> 0]

Event(kind, src, req, chan, amount) ==
  [kind |-> kind, src |-> src, req |-> req, chan |-> chan, amount |-> amount]

\* variant: the effect has no cleanup, the intervals outlive the session
SyncEffect_NoCleanup(oldActive, newActive, newChan, newTotal) ==
  IF newActive = oldActive THEN effect
  ELSE IF newActive THEN [on |-> TRUE, chan |-> newChan, total |-> newTotal]
  ELSE effect

\* useEffect(..., [isCallActive, isLoading]) at 706-728: the effect is re-run
\* only when a dependency changes; when it installs the intervals, their
\* callbacks close over the render that installed them.
SyncEffect(oldActive, newActive, newChan, newTotal) ==
  IF newActive = oldActive THEN effect
  ELSE IF newActive THEN [on |-> TRUE, chan |-> newChan, total |-> newTotal]
  ELSE EffectOff

\* channels a claim can still be authorized on: those some handler in flight,
\* the interval callback or the current render refers to
LiveChannels ==
  {channelId, effect.chan} \cup {t.chan : t \in BagToSet(ticks)}
                           \cup {e.chan : e \in BagToSet(ends)}

\* the log of authorizations ('Claim authorized', 534), kept per live channel
AuthLog ==
  [c \in Channels |->
     IF c \notin LiveChannels' THEN 0
     ELSE IF ev'.kind = "authorized" /\ ev'.chan = c THEN ev'.amount
     ELSE lastAuth[c]]

NoAudit == [verified |-> [c \in Channels |-> 0], commits |-> 0]

\* channels whose session is not over: the intervals or an End Call in
\* flight refer to them
SessionChannels ==
  {effect.chan} \cup {e.chan : e \in BagToSet(ends)}

\* Per channel, while its session lasts, the highest amount (drops) of a
\* claim that a tick authorized and verified before committing (686-697);
\* and the number of ticks that ran
\* setTotalTransferred(prev => prev + TRANSFER_AMOUNT) (697) since the last
\* setTotalTransferred(0) (658, 756, 803).
AuditLog ==
  [verified |->
     [c \in Channels |->
        IF c \notin SessionChannels' THEN 0
        ELSE IF ev'.kind = "tickCommit" /\ ev'.chan = c
                  /\ ev'.amount > audit.verified[c] THEN ev'.amount
        ELSE audit.verified[c]],
   commits |->
     IF ev'.kind \in {"started", "closed", "closeFailed"} THEN 0
     ELSE IF ev'.kind = "tickCommit" THEN audit.commits + 1
     ELSE audit.commits]

\* The ledger gives every created channel a new LedgerIndex (496).  The model
\* names a new channel by the least identifier that no open channel and no
\* part of the program refers to any more.
FreeChannels(chans) ==
  chans \ (ledgerOpen \cup LiveChannels
             \cup {s.newChannelId : s \in BagToSet(starts)})

NewLedgerIndex(chans) ==
  CHOOSE c \in FreeChannels(chans) : \A d \in FreeChannels(chans) : c <= d

OpsInFlight == BagCardinality(starts) + BagCardinality(ends)

Init ==
  /\ isLoading = TRUE
  /\ ready = FALSE
  /\ isCallActive = FALSE
  /\ time = 0
  /\ channelId = NoChannel
  /\ totalTransferred = 0
  /\ lastAuthorizedAmount = 0
  /\ effect = EffectOff
  /\ ticks = EmptyBag
  /\ starts = EmptyBag
  /\ ends = EmptyBag
  /\ ledgerOpen = {}
  /\ lastAuth = [c \in Channels |-> 0]
  /\ audit = NoAudit
  /\ transactions = << >>
  /\ transfers = {}
  /\ clock = 1
  /\ ev = Event("init", "ui", "none", NoChannel, 0)

\* initializeXRPL, 243-326: ends with isLoading false; client and wallets are
\* set on success and the wallets are cleared on failure.
InitializeXRPL(ok) ==
  /\ isLoading
  /\ isLoading' = FALSE
  /\ ready' = ok
  /\ ev' = Event("initialized", "ui", "none", NoChannel, 0)
  /\ UNCHANGED <<isCallActive, time, channelId, totalTransferred,
                 lastAuthorizedAmount, effect, ticks, starts, ends,
                 ledgerOpen>>
  /\ lastAuth' = AuthLog
  /\ audit' = AuditLog
  /\ UNCHANGED directVars

\* variant: the display timer advances by the transfer period
TimerStep_ByPeriod(prevTime) == prevTime + 5

\* (prevTime) => prevTime + 1, 713
TimerStep(prevTime) == prevTime + 1

\* setInterval(() => setTime(prev => prev + 1), 1000), 712-714
TimerTick ==
  /\ effect.on
  /\ time < MaxTime
  /\ time' = TimerStep(time)
  /\ ev' = Event("timer", "timer", "none", NoChannel, 0)
  /\ UNCHANGED <<isLoading, ready, isCallActive, channelId, totalTransferred,
                 lastAuthorizedAmount, effect, ticks, starts, ends,
                 ledgerOpen>>
  /\ lastAuth' = AuthLog
  /\ audit' = AuditLog
  /\ UNCHANGED directVars

One(x) == SetToBag({x})

\* ---------------------------------------------------------------------------
\* handleStartCall, 738-764, with createPaymentChannel, 465-511
\* ---------------------------------------------------------------------------

\* Click on Start Call (button enabled when !(isCallActive || isLoading), 972).
\* Line 739 returns at once when the client or a wallet is missing; otherwise
\* createPaymentChannel submits the PaymentChannelCreate transaction.
\* maxOps bounds the model, not the program.
StartClickWithin(maxOps) ==
  /\ ~isCallActive /\ ~isLoading
  /\ IF ~ready
       THEN /\ ev' = Event("startNoop", "start", "none", NoChannel, 0)
            /\ UNCHANGED starts
       ELSE /\ OpsInFlight < maxOps
            /\ starts' = starts (+) One([pc |-> "create", newChannelId |-> NoChannel])
            /\ ev' = Event("startClick", "start", "createTx", NoChannel,
                           XrpToDrops(ReserveXrp))
  /\ UNCHANGED <<isLoading, ready, isCallActive, time, channelId,
                 totalTransferred, lastAuthorizedAmount, effect, ticks, ends,
                 ledgerOpen>>
  /\ lastAuth' = AuthLog
  /\ audit' = AuditLog
  /\ UNCHANGED directVars

StartClick == StartClickWithin(MaxOps)

\* variant: the check of newChannelId at 745 is missing
ProceedAfterCreate_Always(newChannelId) == TRUE

\* if (!newChannelId) { ...; return; }, 745-748
ProceedAfterCreate(newChannelId) == newChannelId # NoChannel

\* submitAndWait of the create transaction answers, 486-510.  Only a
\* confirmation with a created PayChannel node yields an id (495-499): then
\* setChannelId(newChannelId) and handleStartCall goes on to updateBalances.
\* Otherwise createPaymentChannel returns null and handleStartCall returns (745-748).
\* chans, the identifiers the ledger can assign, bounds the model.
StartCreateRespIn(chans, s, outcome) ==
  /\ s \in BagToSet(starts) /\ s.pc = "create"
  /\ outcome = "created" => FreeChannels(chans) # {}
  /\ LET newChannelId == IF outcome = "created" THEN NewLedgerIndex(chans)
                                                ELSE NoChannel
     IN /\ IF newChannelId # NoChannel
             THEN /\ channelId' = newChannelId
                  /\ ledgerOpen' = ledgerOpen \cup {newChannelId}
                  /\ ev' = Event("created", "start", "none", newChannelId, 0)
             ELSE /\ ev' = Event("createFailed", "start", "none", NoChannel, 0)
                  /\ UNCHANGED <<channelId, ledgerOpen>>
        /\ starts' = IF ProceedAfterCreate(newChannelId)
                       THEN (starts (-) One(s)) (+)
                              One([pc |-> "balances", newChannelId |-> newChannelId])
                       ELSE starts (-) One(s)
  /\ UNCHANGED <<isLoading, ready, isCallActive, time, totalTransferred,
                 lastAuthorizedAmount, effect, ticks, ends>>
  /\ lastAuth' = AuthLog
  /\ audit' = AuditLog
  /\ UNCHANGED directVars

StartCreateResp(s, outcome) == StartCreateRespIn(Channels, s, outcome)

\* updateBalances returns (it swallows its own errors), 751-759:
\* setLastAuthorizedAmount(0); setTotalTransferred(0); setIsCallActive(true).
StartBalancesResp(s) ==
  /\ s \in BagToSet(starts) /\ s.pc = "balances"
  /\ starts' = starts (-) One(s)
  /\ lastAuthorizedAmount' = 0
  /\ totalTransferred' = 0
  /\ isCallActive' = TRUE
  /\ effect' = SyncEffect(isCallActive, TRUE, channelId, 0)
  /\ ev' = Event("started", "start", "none", s.newChannelId, 0)
  /\ UNCHANGED <<isLoading, ready, time, channelId, ticks, ends, ledgerOpen>>
  /\ lastAuth' = AuthLog
  /\ audit' = AuditLog
  /\ UNCHANGED directVars

\* ---------------------------------------------------------------------------
\* transferXRP, 674-704, started by the transfer interval, 717-721
\* ---------------------------------------------------------------------------

\* const nextAuthAmount = totalTransferred + TRANSFER_AMOUNT, 679: the
\* totalTransferred of the render the interval callback closed over.
NextAuthAmount == effect.total + TRANSFER_AMOUNT

\* variant: the interval callback skips a tick while another one is in flight
TickMayStart_Exclusive(inFlight) == inFlight = 0

\* if (isCallActive) { transferXRP(); }, 717-721: the callback looks at
\* nothing but the isCallActive it closed over, whatever is in flight
TickMayStart(inFlight) == TRUE

\* The interval fires.  transferXRP returns at 675 when the channelId it closed
\* over is null; otherwise it sends channel_authorize for nextAuthAmount (524-529).
\* maxInFlight and maxTotal bound the model, not the program.
TickStartWithin(maxInFlight, maxTotal) ==
  /\ effect.on
  /\ IF effect.chan = NoChannel
       THEN /\ ev' = Event("tickNoop", "tick", "none", NoChannel, 0)
            /\ UNCHANGED ticks
       ELSE /\ BagCardinality(ticks) < maxInFlight
            /\ totalTransferred + BagCardinality(ticks) < maxTotal
            /\ TickMayStart(BagCardinality(ticks))
            /\ LET t == [pc |-> "auth", next |-> NextAuthAmount,
                         chan |-> effect.chan, claim |-> NoClaim]
               IN /\ ticks' = ticks (+) One(t)
                  /\ ev' = Event("tickStart", "tick", "authorize", t.chan,
                                 AuthorizeRequest(t.chan, t.next).amount)
  /\ UNCHANGED <<isLoading, ready, isCallActive, time, channelId,
                 totalTransferred, lastAuthorizedAmount, effect, starts, ends,
                 ledgerOpen>>
  /\ lastAuth' = AuthLog
  /\ audit' = AuditLog
  /\ UNCHANGED directVars

TickStart == TickStartWithin(MaxInFlight, MaxTotal)

\* variant: a failed tick ends the session
ActiveAfterTickFailure_Stop(active) == FALSE

\* a tick that fails returns (687, 691-694) or is caught (700-703); nothing
\* there calls setIsCallActive
ActiveAfterTickFailure(active) == active

\* authorizePaymentChannelClaim returns, 531-547: a claim {signature, amount}
\* when the response carries a signature, else null (also when the request
\* throws).  With a claim, transferXRP sends channel_verify (562-568); with
\* null it returns (687).
TickAuthResp(t, resp) ==
  /\ t \in BagToSet(ticks) /\ t.pc = "auth"
  /\ LET claim == authorizePaymentChannelClaim(ready, t.chan, t.next, resp)
     IN IF claim # NoClaim
          THEN /\ ticks' = (ticks (-) One(t)) (+)
                             One([t EXCEPT !.pc = "verify", !.claim = claim])
               /\ ev' = Event("authorized", "tick", "verify", t.chan,
                              VerifyRequest(t.chan, claim.signature, claim.amount).amount)
               /\ UNCHANGED <<isCallActive, effect>>
          ELSE /\ ticks' = ticks (-) One(t)
               /\ ev' = Event("tickAuthFail", "tick", "none", t.chan,
                              AuthorizeRequest(t.chan, t.next).amount)
               /\ isCallActive' = ActiveAfterTickFailure(isCallActive)
               /\ effect' = SyncEffect(isCallActive, isCallActive', channelId,
                                       totalTransferred)
  /\ UNCHANGED <<isLoading, ready, time, channelId,
                 totalTransferred, lastAuthorizedAmount, starts, ends,
                 ledgerOpen>>
  /\ lastAuth' = AuthLog
  /\ audit' = AuditLog
  /\ UNCHANGED directVars

\* variant: the tick stores the amount it authorized, setTotalTransferred(nextAuthAmount)
TickCommit_Authorized(prev, t) == t.next

\* variant: the update is computed from the totalTransferred of the closure,
\* setTotalTransferred(totalTransferred + TRANSFER_AMOUNT)
TickCommit_FromClosure(prev, t) == effect.total + TRANSFER_AMOUNT

\* setTotalTransferred((prev) => prev + TRANSFER_AMOUNT), 697
TickCommit(prev, t) == prev + TRANSFER_AMOUNT

\* variant: the check of isValid at 691 is missing
CommitAllowed_Always(isValid) == TRUE

\* if (!isValid) { ...; return; }, 691-694: the tick commits only a verified claim
CommitAllowed(isValid) == isValid

\* verifyPaymentChannelClaim returns, 570-584: true only when the response
\* has signature_verified.  transferXRP commits only then (691-697).
TickVerifyResp(t, resp) ==
  /\ t \in BagToSet(ticks) /\ t.pc = "verify"
  /\ LET req == VerifyRequest(t.chan, t.claim.signature, t.claim.amount)
         isValid == verifyPaymentChannelClaim(ready, t.chan, resp)
     IN /\ resp = "verified" =>
              SignatureMatches(req.signature, req.channel_id, req.amount)
        /\ totalTransferred' = IF CommitAllowed(isValid)
                                  THEN TickCommit(totalTransferred, t)
                                  ELSE totalTransferred
        /\ ev' = Event(IF isValid THEN "tickCommit" ELSE "tickVerifyFail",
                       "tick", "none", t.chan, t.claim.amount)
        /\ isCallActive' = IF isValid THEN isCallActive
                                      ELSE ActiveAfterTickFailure(isCallActive)
        /\ effect' = SyncEffect(isCallActive, isCallActive', channelId,
                                totalTransferred')
  /\ ticks' = ticks (-) One(t)
  /\ UNCHANGED <<isLoading, ready, time, channelId,
                 lastAuthorizedAmount, starts, ends, ledgerOpen>>
  /\ lastAuth' = AuthLog
  /\ audit' = AuditLog
  /\ UNCHANGED directVars

\* ---------------------------------------------------------------------------
\* handleEndCall, 766-815, with claimPaymentChannel, 588-627, and
\* closePaymentChannel, 630-671
\* ---------------------------------------------------------------------------

\* variant: the guard at 780 is missing
FinalClaimDue_Always(total) == TRUE

\* if (totalTransferred > 0), 780: whether End Call makes a final claim
FinalClaimDue(total) == total > 0

\* authorizePaymentChannelClaim(totalTransferred), 784: the amount of the final claim
FinalClaimAmount(total) == total

\* variant: the guard at 767 is missing
EndWithoutChannel_Ignored(hasClientAndWallets, chan) == FALSE

\* if (!client || !wallet1 || !wallet2 || !channelId), 767
EndWithoutChannel(hasClientAndWallets, chan) ==
  ~hasClientAndWallets \/ chan = NoChannel

\* Click on End Call (button enabled when isCallActive && !isLoading, 983).
\* Without client, wallets or channelId: 767-772.  Otherwise
\* setIsCallActive(false), then either the final channel_authorize request
\* (780-784) or, when totalTransferred is 0, closePaymentChannel at once (800).
\* maxOps bounds the model, not the program.
EndClickWithin(maxOps) ==
  /\ isCallActive /\ ~isLoading
  /\ isCallActive' = FALSE
  /\ effect' = SyncEffect(isCallActive, FALSE, channelId, totalTransferred)
  /\ IF EndWithoutChannel(ready, channelId)
       THEN /\ time' = 0
            /\ ev' = Event("endNoChannel", "end", "none", NoChannel, 0)
            /\ UNCHANGED ends
       ELSE /\ OpsInFlight < maxOps
            /\ UNCHANGED time
            /\ LET e == [pc |-> IF FinalClaimDue(totalTransferred) THEN "auth" ELSE "close",
                         chan |-> channelId, total |-> totalTransferred,
                         claim |-> NoClaim, authOk |-> FALSE, verified |-> FALSE,
                         claimRes |-> "none"]
               IN /\ ends' = ends (+) One(e)
                  /\ ev' = IF e.pc = "auth"
                             THEN Event("endClick", "end", "authorize", e.chan,
                                        AuthorizeRequest(e.chan, FinalClaimAmount(e.total)).amount)
                             ELSE Event("endClick", "end", "closeTx", e.chan, 0)
  /\ UNCHANGED <<isLoading, ready, channelId, totalTransferred,
                 lastAuthorizedAmount, ticks, starts, ledgerOpen>>
  /\ lastAuth' = AuthLog
  /\ audit' = AuditLog
  /\ UNCHANGED directVars

EndClick == EndClickWithin(MaxOps)

\* variant: handleEndCall returns when the final authorization gave no claim
AfterAuthFailure_Return == "return"

\* where handleEndCall goes when the final authorization gave no claim (785, 796)
AfterAuthFailure == "close"

\* The final channel_authorize answers, 784-786.  With a claim the handler
\* sends channel_verify; without one it goes to closePaymentChannel.
EndAuthResp(e, resp) ==
  /\ e \in BagToSet(ends) /\ e.pc = "auth"
  /\ LET finalClaim == authorizePaymentChannelClaim(ready, e.chan,
                                                    FinalClaimAmount(e.total), resp)
     IN
     IF finalClaim # NoClaim
       THEN LET e2 == [e EXCEPT !.pc = "verify", !.authOk = TRUE,
                                !.claim = finalClaim]
            IN /\ ends' = (ends (-) One(e)) (+) One(e2)
               /\ ev' = Event("authorized", "end", "verify", e.chan,
                              VerifyRequest(e.chan, finalClaim.signature,
                                            finalClaim.amount).amount)
       ELSE IF AfterAuthFailure = "close"
         THEN LET e2 == [e EXCEPT !.pc = "close"]
              IN /\ ends' = (ends (-) One(e)) (+) One(e2)
                 /\ ev' = Event("endAuthFail", "end", "closeTx", e.chan, 0)
         ELSE /\ ends' = ends (-) One(e)
              /\ ev' = Event("endAuthFail", "end", "none", e.chan, 0)
  /\ UNCHANGED <<isLoading, ready, isCallActive, time, channelId,
                 totalTransferred, lastAuthorizedAmount, effect, ticks, starts,
                 ledgerOpen>>
  /\ lastAuth' = AuthLog
  /\ audit' = AuditLog
  /\ UNCHANGED directVars

\* variant: the check of isValid at 787 is missing
RedeemAllowed_Always(isValid) == TRUE

\* if (isValid), 787: the final claim is redeemed only when it verified
RedeemAllowed(isValid) == isValid

\* The final channel_verify answers, 786-789.  Verified: claimPaymentChannel
\* submits the PaymentChannelClaim with Amount = Balance = claim.amount
\* (594-602).  Not verified: on to closePaymentChannel.
EndVerifyResp(e, resp) ==
  /\ e \in BagToSet(ends) /\ e.pc = "verify"
  /\ LET req == VerifyRequest(e.chan, e.claim.signature, e.claim.amount)
         isValid == verifyPaymentChannelClaim(ready, e.chan, resp)
         e2 == IF RedeemAllowed(isValid)
                 THEN [e EXCEPT !.pc = "claim", !.verified = isValid]
                 ELSE [e EXCEPT !.pc = "close"]
     IN /\ resp = "verified" =>
              SignatureMatches(req.signature, req.channel_id, req.amount)
        /\ ends' = (ends (-) One(e)) (+) One(e2)
        /\ ev' = IF e2.pc = "claim"
                   THEN Event("endVerified", "end", "claimTx", e.chan,
                              ClaimTx(e.chan, e.claim.signature, e.claim.amount).Amount)
                   ELSE Event("endVerifyFail", "end", "closeTx", e.chan, 0)
  /\ UNCHANGED <<isLoading, ready, isCallActive, time, channelId,
                 totalTransferred, lastAuthorizedAmount, effect, ticks, starts,
                 ledgerOpen>>
  /\ lastAuth' = AuthLog
  /\ audit' = AuditLog
  /\ UNCHANGED directVars

\* claimPaymentChannel returns, 610-626: true on tesSUCCESS, false on any
\* other result and after a caught exception.
ClaimResult(outcome) == IF outcome = "tesSUCCESS" THEN "claimed" ELSE "failed"

\* The claim transaction answers; handleEndCall ignores the value that
\* claimPaymentChannel returns and awaits updateBalances (789-793).
EndClaimResp(e, outcome) ==
  /\ e \in BagToSet(ends) /\ e.pc = "claim"
  /\ outcome = "tesSUCCESS" => e.chan \in ledgerOpen
  /\ LET e2 == [e EXCEPT !.pc = "balances", !.claimRes = ClaimResult(outcome)]
     IN /\ ends' = (ends (-) One(e)) (+) One(e2)
        /\ ev' = Event("endClaimed", "end", "none", e.chan, e.claim.amount)
  /\ UNCHANGED <<isLoading, ready, isCallActive, time, channelId,
                 totalTransferred, lastAuthorizedAmount, effect, ticks, starts,
                 ledgerOpen>>
  /\ lastAuth' = AuthLog
  /\ audit' = AuditLog
  /\ UNCHANGED directVars

\* updateBalances after the final claim returns, 793-794; closePaymentChannel
\* then submits the close transaction (800).
EndBalancesResp(e) ==
  /\ e \in BagToSet(ends) /\ e.pc = "balances"
  /\ LET e2 == [e EXCEPT !.pc = "close"]
     IN /\ ends' = (ends (-) One(e)) (+) One(e2)
        /\ ev' = Event("endBalances", "end", "closeTx", e.chan, 0)
  /\ UNCHANGED <<isLoading, ready, isCallActive, time, channelId,
                 totalTransferred, lastAuthorizedAmount, effect, ticks, starts,
                 ledgerOpen>>
  /\ lastAuth' = AuthLog
  /\ audit' = AuditLog
  /\ UNCHANGED directVars

\* closePaymentChannel returns, 653-670, and handleEndCall finishes, 802-806.
\* On tesSUCCESS: setChannelId(null); setTotalTransferred(0).  In every case:
\* setTime(0); setTotalTransferred(0); setLastAuthorizedAmount(0).
EndCloseResp(e, outcome) ==
  /\ e \in BagToSet(ends) /\ e.pc = "close"
  /\ outcome = "tesSUCCESS" => e.chan \in ledgerOpen
  /\ ends' = ends (-) One(e)
  /\ IF outcome = "tesSUCCESS"
       THEN /\ channelId' = NoChannel
            /\ ledgerOpen' = ledgerOpen \ {e.chan}
       ELSE UNCHANGED <<channelId, ledgerOpen>>
  /\ time' = 0
  /\ totalTransferred' = 0
  /\ lastAuthorizedAmount' = 0
  /\ ev' = Event(IF outcome = "tesSUCCESS" THEN "closed" ELSE "closeFailed",
                 "end", "none", e.chan, 0)
  /\ UNCHANGED <<isLoading, ready, isCallActive, effect, ticks, starts>>
  /\ lastAuth' = AuthLog
  /\ audit' = AuditLog
  /\ UNCHANGED directVars

TxOutcomes == {"tesSUCCESS", "rejected", "throw"}
CreateOutcomes == {"created", "rejected", "throw"}

Next ==
  \/ \E ok \in BOOLEAN : InitializeXRPL(ok)
  \/ TimerTick
  \/ StartClick
  \/ \E s \in BagToSet(starts), o \in CreateOutcomes : StartCreateResp(s, o)
  \/ \E s \in BagToSet(starts) : StartBalancesResp(s)
  \/ TickStart
  \/ \E t \in BagToSet(ticks), r \in AuthorizeResponses : TickAuthResp(t, r)
  \/ \E t \in BagToSet(ticks), r \in VerifyResponses : TickVerifyResp(t, r)
  \/ EndClick
  \/ \E e \in BagToSet(ends), r \in AuthorizeResponses : EndAuthResp(e, r)
  \/ \E e \in BagToSet(ends), r \in VerifyResponses : EndVerifyResp(e, r)
  \/ \E e \in BagToSet(ends), o \in TxOutcomes : EndClaimResp(e, o)
  \/ \E e \in BagToSet(ends) : EndBalancesResp(e)
  \/ \E e \in BagToSet(ends), o \in TxOutcomes : EndCloseResp(e, o)

Spec == Init /\ [][Next]_vars

TypeOK ==
  /\ isLoading \in BOOLEAN /\ ready \in BOOLEAN /\ isCallActive \in BOOLEAN
  /\ time \in 0..MaxTime
  /\ channelId \in {NoChannel} \cup Channels
  /\ totalTransferred \in Nat
  /\ lastAuthorizedAmount = 0
  /\ BagCardinality(ticks) <= MaxInFlight
  /\ OpsInFlight <= MaxOps
  /\ ledgerOpen \subseteq Channels

\* ---------------------------------------------------------------------------
\* A long call: Start Call and End Call one at a time, ticks one at a time.
\* Every behaviour of SpecLong is a behaviour of the program; the restriction
\* leaves room for more ticks than the reserve holds.
\* ---------------------------------------------------------------------------
MaxLongTotal == 11

TickStartLong == TickStartWithin(1, MaxLongTotal)

NextLong ==
  \/ InitializeXRPL(TRUE)
  \/ (OpsInFlight = 0 /\ StartClick)
  \/ \E s \in BagToSet(starts), o \in CreateOutcomes : StartCreateResp(s, o)
  \/ \E s \in BagToSet(starts) : StartBalancesResp(s)
  \/ TickStartLong
  \/ \E t \in BagToSet(ticks), r \in AuthorizeResponses : TickAuthResp(t, r)
  \/ \E t \in BagToSet(ticks), r \in VerifyResponses : TickVerifyResp(t, r)
  \/ (OpsInFlight = 0 /\ EndClick)
  \/ \E e \in BagToSet(ends), r \in AuthorizeResponses : EndAuthResp(e, r)
  \/ \E e \in BagToSet(ends), r \in VerifyResponses : EndVerifyResp(e, r)
  \/ \E e \in BagToSet(ends), o \in TxOutcomes : EndClaimResp(e, o)
  \/ \E e \in BagToSet(ends) : EndBalancesResp(e)
  \/ \E e \in BagToSet(ends), o \in TxOutcomes : EndCloseResp(e, o)

SpecLong == Init /\ [][NextLong]_vars

\* ---------------------------------------------------------------------------
\* Clicks while a handler is still awaiting the gateway.  The Start Call
\* button is enabled whenever !isCallActive && !isLoading (972) and the End
\* Call button whenever isCallActive && !isLoading (983), whatever is in
\* flight, so a new session can begin while the previous End Call, or a tick
\* of the previous session, has not finished.  The new channel then exists
\* next to the old one.
\* ---------------------------------------------------------------------------
MaxRaceChannels == 2   \* channels that exist or are referred to at once
MaxRaceOps      == 2   \* Start Call / End Call handlers in flight at once
MaxRaceInFlight == 1   \* transferXRP invocations in flight at once
MaxRaceTotal    == 1   \* ticks are started while the total can stay <= MaxRaceTotal

RaceChannels == 1..MaxRaceChannels

NextRace ==
  \/ \E ok \in BOOLEAN : InitializeXRPL(ok)
  \/ StartClickWithin(MaxRaceOps)
  \/ \E s \in BagToSet(starts), o \in CreateOutcomes :
        StartCreateRespIn(RaceChannels, s, o)
  \/ \E s \in BagToSet(starts) : StartBalancesResp(s)
  \/ TickStartWithin(MaxRaceInFlight, MaxRaceTotal)
  \/ \E t \in BagToSet(ticks), r \in AuthorizeResponses : TickAuthResp(t, r)
  \/ \E t \in BagToSet(ticks), r \in VerifyResponses : TickVerifyResp(t, r)
  \/ EndClickWithin(MaxRaceOps)
  \/ \E e \in BagToSet(ends), r \in AuthorizeResponses : EndAuthResp(e, r)
  \/ \E e \in BagToSet(ends), r \in VerifyResponses : EndVerifyResp(e, r)
  \/ \E e \in BagToSet(ends), o \in TxOutcomes : EndClaimResp(e, o)
  \/ \E e \in BagToSet(ends) : EndBalancesResp(e)
  \/ \E e \in BagToSet(ends), o \in TxOutcomes : EndCloseResp(e, o)

SpecRace == Init /\ [][NextRace]_vars

\* The same with Start Call and End Call clicked only when no handler is in
\* flight: what is left over from the previous session is its ticks.
NextRestart ==
  \/ \E ok \in BOOLEAN : InitializeXRPL(ok)
  \/ (OpsInFlight = 0 /\ StartClickWithin(MaxRaceOps))
  \/ \E s \in BagToSet(starts), o \in CreateOutcomes :
        StartCreateRespIn(RaceChannels, s, o)
  \/ \E s \in BagToSet(starts) : StartBalancesResp(s)
  \/ TickStartWithin(MaxRaceInFlight, MaxRaceTotal)
  \/ \E t \in BagToSet(ticks), r \in AuthorizeResponses : TickAuthResp(t, r)
  \/ \E t \in BagToSet(ticks), r \in VerifyResponses : TickVerifyResp(t, r)
  \/ (OpsInFlight = 0 /\ EndClickWithin(MaxRaceOps))
  \/ \E e \in BagToSet(ends), r \in AuthorizeResponses : EndAuthResp(e, r)
  \/ \E e \in BagToSet(ends), r \in VerifyResponses : EndVerifyResp(e, r)
  \/ \E e \in BagToSet(ends), o \in TxOutcomes : EndClaimResp(e, o)
  \/ \E e \in BagToSet(ends) : EndBalancesResp(e)
  \/ \E e \in BagToSet(ends), o \in TxOutcomes : EndCloseResp(e, o)

SpecRestart == Init /\ [][NextRestart]_vars

\* Sessions too short for a transfer tick (the interval is 5 s, 721): the
\* clicks, the handlers of Start Call and End Call, and the display timer.
\* With totalTransferred 0 an End Call goes straight to the close transaction.
NextLifecycle ==
  \/ \E ok \in BOOLEAN : InitializeXRPL(ok)
  \/ TimerTick
  \/ StartClickWithin(MaxRaceOps)
  \/ \E s \in BagToSet(starts), o \in CreateOutcomes :
        StartCreateRespIn(RaceChannels, s, o)
  \/ \E s \in BagToSet(starts) : StartBalancesResp(s)
  \/ EndClickWithin(MaxRaceOps)
  \/ \E e \in BagToSet(ends), o \in TxOutcomes : EndCloseResp(e, o)

SpecLifecycle == Init /\ [][NextLifecycle]_vars

\* ---------------------------------------------------------------------------
\* authorizePaymentChannelClaim and verifyPaymentChannelClaim on their own:
\* one call of the function of some render of the component, with any amount
\* and any answer of the gateway.  The handlers above call them only with
\* client, wallets and channelId present; here the guards at 515 and 552 are
\* exercised too.
\* ---------------------------------------------------------------------------
MaxCallAmount == 3   \* XRP amounts passed to a call

CallAmounts == 0..MaxCallAmount

\* a render of the component with no handler in flight
InitCalls ==
  /\ isLoading = FALSE
  /\ ready \in BOOLEAN
  /\ channelId \in {NoChannel} \cup Channels
  /\ isCallActive \in BOOLEAN
  /\ channelId # NoChannel => ready
  /\ isCallActive => channelId # NoChannel
  /\ totalTransferred \in 0..MaxTotal
  /\ time = 0
  /\ lastAuthorizedAmount = 0
  /\ effect = IF isCallActive THEN [on |-> TRUE, chan |-> channelId, total |-> 0]
                              ELSE EffectOff
  /\ ticks = EmptyBag
  /\ starts = EmptyBag
  /\ ends = EmptyBag
  /\ ledgerOpen = {channelId} \ {NoChannel}
  /\ lastAuth = [c \in Channels |-> 0]
  /\ audit = NoAudit
  /\ transactions = << >>
  /\ transfers = {}
  /\ clock = 1
  /\ ev = Event("init", "ui", "none", NoChannel, 0)

\* what a call did: the request it sent (req is "none" when it returned
\* before sending one), the gateway's answer and the value it returned
CallEvent(kind, req, chan, amount, resp, result) ==
  [kind |-> kind, src |-> "call", req |-> req, chan |-> chan,
   amount |-> amount, resp |-> resp, result |-> result]

\* the guards at 515 and 552
CallSendsRequest == ready /\ channelId # NoChannel

\* authorizePaymentChannelClaim(amount), 514-548: calls no setter and
\* submits no transaction
AuthorizeCall(amount, resp) ==
  /\ ev' = CallEvent("authorizeCall",
                     IF CallSendsRequest THEN "authorize" ELSE "none",
                     channelId, AuthorizeRequest(channelId, amount).amount,
                     IF CallSendsRequest THEN resp ELSE "none",
                     authorizePaymentChannelClaim(ready, channelId, amount, resp))
  /\ UNCHANGED <<isLoading, ready, isCallActive, time, channelId,
                 totalTransferred, lastAuthorizedAmount, effect, ticks, starts,
                 ends, ledgerOpen>>
  /\ lastAuth' = AuthLog
  /\ audit' = AuditLog
  /\ UNCHANGED directVars

\* verifyPaymentChannelClaim(signature, amount), 551-585
VerifyCall(signature, amount, resp) ==
  /\ LET req == VerifyRequest(channelId, signature, amount)
     IN /\ resp = "verified" =>
              SignatureMatches(req.signature, req.channel_id, req.amount)
        /\ ev' = CallEvent("verifyCall",
                           IF CallSendsRequest THEN "verify" ELSE "none",
                           channelId, req.amount,
                           IF CallSendsRequest THEN resp ELSE "none",
                           verifyPaymentChannelClaim(ready, channelId, resp))
  /\ UNCHANGED <<isLoading, ready, isCallActive, time, channelId,
                 totalTransferred, lastAuthorizedAmount, effect, ticks, starts,
                 ends, ledgerOpen>>
  /\ lastAuth' = AuthLog
  /\ audit' = AuditLog
  /\ UNCHANGED directVars

\* a gateway whose channel_verify accepts exactly what its channel_authorize signed
ConsistentVerify(req) ==
  IF SignatureMatches(req.signature, req.channel_id, req.amount)
    THEN "verified" ELSE "notVerified"

\* const claim = await authorizePaymentChannelClaim(a);
\* await verifyPaymentChannelClaim(claim.signature, claim.amount), as in
\* 686-690 and 784-786, on an open channel against the consistent gateway
RoundTrip(amount) ==
  /\ CallSendsRequest
  /\ LET claim == authorizePaymentChannelClaim(ready, channelId, amount, "signature")
         req == VerifyRequest(channelId, claim.signature, claim.amount)
     IN ev' = CallEvent("roundTrip", "verify", channelId, req.amount,
                        ConsistentVerify(req),
                        verifyPaymentChannelClaim(ready, channelId,
                                                  ConsistentVerify(req)))
  /\ UNCHANGED <<isLoading, ready, isCallActive, time, channelId,
                 totalTransferred, lastAuthorizedAmount, effect, ticks, starts,
                 ends, ledgerOpen>>
  /\ lastAuth' = AuthLog
  /\ audit' = AuditLog
  /\ UNCHANGED directVars

NextCalls ==
  \/ \E a \in CallAmounts, r \in AuthorizeResponses : AuthorizeCall(a, r)
  \/ \E c \in Channels, a \in CallAmounts, b \in CallAmounts, r \in VerifyResponses :
        VerifyCall(Sign(c, XrpToDrops(a)), XrpToDrops(b), r)
  \/ \E a \in CallAmounts : RoundTrip(a)

SpecCalls == InitCalls /\ [][NextCalls]_vars

\* ---------------------------------------------------------------------------
\* The direct-payment variant, src/unnamed/part_000: no payment channel; every
\* transfer tick submits a Payment of TRANSFER_AMOUNT and is shown in the
\* list of recent transactions.  Of the variables above it has isLoading,
\* client and wallets (ready), isCallActive, time and the interval effect.
\* ---------------------------------------------------------------------------
MaxTransfers      == 5   \* transfers started in one run
MaxDirectInFlight == 2   \* transferXRP invocations awaiting the ledger at once

MAX_TRANSACTIONS == 4

\* the state that only the payment-channel page has
channelVars == <<channelId, totalTransferred, lastAuthorizedAmount, ticks,
                 starts, ends, ledgerOpen, lastAuth, audit>>

DirectEvent(kind, id) ==
  [kind |-> kind, src |-> "direct", req |-> "none", chan |-> NoChannel,
   amount |-> 0, id |-> id]

\* variant: the list is not cut
KeepNewest_All(list) == list

\* .slice(0, MAX_TRANSACTIONS), part_000 162
KeepNewest(list) ==
  SubSeq(list, 1, IF Len(list) < MAX_TRANSACTIONS THEN Len(list)
                                                   ELSE MAX_TRANSACTIONS)

\* prev => [newTransaction, ...prev].slice(0, MAX_TRANSACTIONS), 162
AddTransaction(prev, newTransaction) == KeepNewest(<<newTransaction>> \o prev)

\* prev => prev.map(tx => tx.id === transactionId ? {...tx, status} : tx),
\* 186-192 and 203-209
SetStatus(prev, transactionId, status) ==
  [i \in 1..Len(prev) |->
     IF prev[i].id = transactionId THEN [prev[i] EXCEPT !.status = status]
                                   ELSE prev[i]]

\* initializeXRPL of part_000, 80-103
DirectInitialize(ok) ==
  /\ isLoading
  /\ isLoading' = FALSE
  /\ ready' = ok
  /\ ev' = DirectEvent("initialized", 0)
  /\ UNCHANGED <<isCallActive, time, effect, transactions, transfers, clock>>
  /\ UNCHANGED channelVars

\* the timer interval, 219-221
DirectTimerTick ==
  /\ effect.on
  /\ time < MaxTime
  /\ time' = time + 1
  /\ ev' = DirectEvent("timer", 0)
  /\ UNCHANGED <<isLoading, ready, isCallActive, effect, transactions,
                 transfers, clock>>
  /\ UNCHANGED channelVars

\* handleStartCall, 243-247 (button enabled when !(isCallActive || isLoading), 334)
DirectStartCall ==
  /\ ~isCallActive /\ ~isLoading
  /\ isCallActive' = TRUE
  /\ transactions' = << >>
  /\ effect' = SyncEffect(isCallActive, TRUE, NoChannel, 0)
  /\ ev' = DirectEvent("startCall", 0)
  /\ UNCHANGED <<isLoading, ready, time, transfers, clock>>
  /\ UNCHANGED channelVars

\* handleEndCall, 249-253 (button enabled when isCallActive && !isLoading, 346)
DirectEndCall ==
  /\ isCallActive /\ ~isLoading
  /\ isCallActive' = FALSE
  /\ time' = 0
  /\ effect' = SyncEffect(isCallActive, FALSE, NoChannel, 0)
  /\ ev' = DirectEvent("endCall", 0)
  /\ UNCHANGED <<isLoading, ready, transactions, transfers, clock>>
  /\ UNCHANGED channelVars

\* The transfer interval fires (224-226) and transferXRP runs up to its first
\* await: return without client or wallets (143); otherwise the new pending
\* transaction, whose id is the time of the call (145), is put in front of
\* the list (162) and the Payment is submitted (165-180).  Two calls are 5 s
\* apart, so their ids differ.
\* MaxTransfers and MaxDirectInFlight bound the model, not the program.
DirectTransferStart ==
  /\ effect.on
  /\ IF ~ready
       THEN /\ ev' = DirectEvent("transferNoop", 0)
            /\ UNCHANGED <<transactions, transfers, clock>>
       ELSE /\ clock <= MaxTransfers
            /\ Cardinality(transfers) < MaxDirectInFlight
            /\ transactions' = AddTransaction(transactions,
                                              [id |-> clock, status |-> "pending"])
            /\ transfers' = transfers \cup {[id |-> clock, pc |-> "submit"]}
            /\ clock' = clock + 1
            /\ ev' = DirectEvent("transferStart", clock)
  /\ UNCHANGED <<isLoading, ready, isCallActive, time, effect>>
  /\ UNCHANGED channelVars

\* submitAndWait answers, 180-196: on tesSUCCESS the transfer goes on to
\* updateBalances (185); any other result, or an exception, is caught and the
\* transaction is marked failed (197-210).
DirectSubmitResp(x, outcome) ==
  /\ x \in transfers /\ x.pc = "submit"
  /\ IF outcome = "tesSUCCESS"
       THEN /\ transfers' = (transfers \ {x}) \cup {[x EXCEPT !.pc = "balances"]}
            /\ ev' = DirectEvent("transferConfirmed", x.id)
            /\ UNCHANGED transactions
       ELSE /\ transfers' = transfers \ {x}
            /\ transactions' = SetStatus(transactions, x.id, "failed")
            /\ ev' = DirectEvent("transferFailed", x.id)
  /\ UNCHANGED <<isLoading, ready, isCallActive, time, effect, clock>>
  /\ UNCHANGED channelVars

\* updateBalances returns (it swallows its own errors, 115-139) and the
\* transaction is marked completed, 186-192
DirectBalancesResp(x) ==
  /\ x \in transfers /\ x.pc = "balances"
  /\ transfers' = transfers \ {x}
  /\ transactions' = SetStatus(transactions, x.id, "completed")
  /\ ev' = DirectEvent("transferCompleted", x.id)
  /\ UNCHANGED <<isLoading, ready, isCallActive, time, effect, clock>>
  /\ UNCHANGED channelVars

NextDirect ==
  \/ \E ok \in BOOLEAN : DirectInitialize(ok)
  \/ DirectTimerTick
  \/ DirectStartCall
  \/ DirectEndCall
  \/ DirectTransferStart
  \/ \E x \in transfers, o \in TxOutcomes : DirectSubmitResp(x, o)
  \/ \E x \in transfers : DirectBalancesResp(x)

SpecDirect == Init /\ [][NextDirect]_vars

\* ---------------------------------------------------------------------------
\* Properties
\* ---------------------------------------------------------------------------

TickFailed(e) == e.kind \in {"tickAuthFail", "tickVerifyFail"}

\* C1: no step of a transfer tick decreases totalTransferred, and a tick whose
\* authorization and verification both succeeded raises it by exactly
\* TRANSFER_AMOUNT.
C1_TicksGrowByIncrement ==
  [][ev'.src = "tick" =>
       /\ totalTransferred' >= totalTransferred
       /\ ev'.kind = "tickCommit" =>
            totalTransferred' = totalTransferred + TRANSFER_AMOUNT]_vars

\* a second successful tick of a session has committed
C1_Witness == ev.kind = "tickCommit" /\ totalTransferred = 2

\* C2: when a tick commits, the new totalTransferred is the cumulative amount
\* of the claim that this tick authorized and verified.
C2_CommitIsAuthorizedAmount ==
  ev.kind = "tickCommit" => XrpToDrops(totalTransferred) = ev.amount

\* C3: totalTransferred never exceeds the funded reserve, and no
\* channel_authorize request asks for more than the reserve.
C3_WithinReserve ==
  /\ totalTransferred <= ReserveXrp
  /\ ev.req = "authorize" => ev.amount <= XrpToDrops(ReserveXrp)

\* C4: a tick whose authorization gave no claim or whose verification failed
\* leaves totalTransferred, lastAuthorizedAmount, channelId and isCallActive
\* as they were.
C4_FailedTickChangesNothing ==
  [][TickFailed(ev') =>
       UNCHANGED <<totalTransferred, lastAuthorizedAmount, channelId,
                   isCallActive>>]_vars

\* a tick failed its verification after an earlier tick had committed
C4_Witness == ev.kind = "tickVerifyFail" /\ totalTransferred > 0

\* C5: End Call with an open channel and totalTransferred > 0 requests the
\* authorization of exactly totalTransferred, verifies that claim, redeems
\* that amount only after a successful verification, and reaches the close
\* transaction only after the redemption was submitted.
C5_FinalClaimThenClose ==
  /\ (ev.kind = "endClick" /\ totalTransferred > 0) =>
        /\ ev.req = "authorize"
        /\ ev.amount = XrpToDrops(totalTransferred)
  /\ ev.req = "claimTx" =>
        \E e \in BagToSet(ends) :
          /\ e.pc = "claim" /\ e.chan = ev.chan /\ e.verified
          /\ ev.amount = XrpToDrops(e.total)
  /\ \A e \in BagToSet(ends) :
        /\ e.pc \in {"verify", "claim"} => e.claim.amount = XrpToDrops(e.total)
        /\ e.pc = "claim" => e.verified
        /\ e.claimRes # "none" => e.verified
        /\ (e.pc = "close" /\ e.verified) => e.claimRes # "none"

\* after two committed ticks End Call redeemed 2 and is closing the channel
C5_Witness ==
  \E e \in BagToSet(ends) :
    /\ e.pc = "close" /\ e.total = 2 /\ e.claimRes = "claimed"
    /\ e.claim.amount = XrpToDrops(2)

\* C6: once End Call completed with a successful close, channelId is null and
\* both counters are 0, and they stay so until a Start Call acts.
ClosedAndReset ==
  channelId = NoChannel /\ totalTransferred = 0 /\ lastAuthorizedAmount = 0

C6_ClosedStaysReset ==
  /\ [](ev.kind = "closed" => ClosedAndReset)
  /\ [][(ClosedAndReset /\ starts = EmptyBag /\ ev'.src # "start")
          => ClosedAndReset']_vars

\* C7: an End Call with an open channel never returns without the close
\* attempt: a failed authorization or verification goes straight to the close
\* transaction, and the handler only finishes with the answer to it.
C7_CloseAlwaysAttempted ==
  /\ [](ev.kind \in {"endAuthFail", "endVerifyFail"} =>
          /\ ev.req = "closeTx"
          /\ \E e \in BagToSet(ends) : e.pc = "close" /\ e.chan = ev.chan)
  /\ [][BagCardinality(ends') < BagCardinality(ends) =>
          ev'.kind \in {"closed", "closeFailed"}]_vars

\* the claim redemption was rejected and the close transaction is under way
C7_Witness ==
  \E e \in BagToSet(ends) : e.pc = "close" /\ e.claimRes = "failed"

\* C8: on each channel the amounts of the authorized claims, in the order of
\* their authorization, never decrease.
C8_ClaimsNonDecreasing ==
  [][ev'.kind = "authorized" => ev'.amount >= lastAuth[ev'.chan]]_vars

\* C9: an End Call that finds totalTransferred = 0 goes straight to the close
\* transaction: no authorize request, no verify request, no claim redemption.
C9_NoFinalClaimWhenZero ==
  /\ (ev.kind = "endClick" /\ totalTransferred = 0) => ev.req = "closeTx"
  /\ \A e \in BagToSet(ends) :
        e.total = 0 =>
          /\ e.pc = "close" /\ e.claim = NoClaim
          /\ ~e.authOk /\ ~e.verified /\ e.claimRes = "none"
  /\ (ev.src = "end" /\ ev.req \in {"authorize", "verify", "claimTx"}) =>
        \E e \in BagToSet(ends) : e.chan = ev.chan /\ e.total > 0

\* End Call was clicked on an open channel with nothing transferred
C9_Witness ==
  /\ ev.kind = "endClick" /\ totalTransferred = 0
  /\ \E e \in BagToSet(ends) : e.total = 0 /\ e.pc = "close"

\* C10: the tick that follows a failed tick requests the amount the failed one
\* requested, which is the committed total plus one increment, and a commit
\* raises the total by one increment only.
C10_RetrySameIncrement ==
  [][/\ (TickFailed(ev) /\ ev'.kind = "tickStart") =>
          /\ ev'.amount = ev.amount
          /\ ev'.amount = XrpToDrops(totalTransferred + TRANSFER_AMOUNT)
     /\ ev'.kind = "tickCommit" =>
          totalTransferred' = totalTransferred + TRANSFER_AMOUNT]_vars

\* the model lets one more tick start in this state
RoomForTick ==
  /\ BagCardinality(ticks) < MaxInFlight
  /\ totalTransferred + BagCardinality(ticks) < MaxTotal

\* C11: createPaymentChannel yields an id only for a channel the ledger
\* created, and that id is then the channelId; the session is activated only
\* by a Start Call that got an id; a Start Call whose creation failed ends
\* there, leaving channelId, isCallActive, the intervals and the ticks as
\* they were; ticks are started only by the intervals of an activated session.
C11_StartNeedsChannel ==
  /\ [](ev.kind = "created" =>
          ev.chan # NoChannel /\ ev.chan \in ledgerOpen /\ channelId = ev.chan)
  /\ [](ev.kind = "started" => ev.chan # NoChannel)
  /\ [](\A s \in BagToSet(starts) : s.pc = "balances" => s.newChannelId # NoChannel)
  /\ [](ev.kind = "tickStart" => effect.on /\ effect.chan # NoChannel)
  /\ [][ev'.kind = "createFailed" =>
          /\ UNCHANGED <<channelId, isCallActive, effect, ticks>>
          /\ BagCardinality(starts') < BagCardinality(starts)]_vars

\* a Start Call failed to create its channel: no session, no channel, no tick
C11_Witness ==
  /\ ev.kind = "createFailed" /\ starts = EmptyBag
  /\ ~isCallActive /\ channelId = NoChannel /\ ticks = EmptyBag

\* C12: no tick is started while the session is not active, and a tick that
\* was in flight when End Call deactivated the session still adds
\* TRANSFER_AMOUNT to totalTransferred when its verification succeeds, with
\* isCallActive false before and after.
C12_InFlightTickLandsAfterEnd ==
  [][/\ ev'.kind = "tickStart" => (isCallActive /\ isCallActive')
     /\ (ev'.kind = "tickCommit" /\ ~isCallActive) =>
          /\ totalTransferred' = totalTransferred + TRANSFER_AMOUNT
          /\ ~isCallActive']_vars

\* a tick committed after End Call had deactivated the session
C12_Witness ==
  ev.kind = "tickCommit" /\ ~isCallActive /\ ~effect.on /\ totalTransferred > 0

\* C13: a tick in flight does not keep the transfer interval from starting
\* another one.
C13_TicksMayOverlap ==
  (effect.on /\ effect.chan # NoChannel /\ BagCardinality(ticks) >= 1
     /\ RoomForTick)
    => ENABLED TickStart

\* the interval started a tick while another one was awaiting the gateway
C13_Witness ==
  /\ ev.kind = "tickStart" /\ BagCardinality(ticks) = 2
  /\ \E t \in BagToSet(ticks) : t.pc = "verify"

\* C14: a failed tick changes neither isCallActive nor channelId nor the
\* intervals, and in an active session the interval can start the next tick.
C14_TickFailureSwallowed ==
  /\ [][TickFailed(ev') => UNCHANGED <<isCallActive, channelId, effect>>]_vars
  /\ []((TickFailed(ev) /\ isCallActive) => effect.on)
  /\ []((TickFailed(ev) /\ isCallActive /\ RoomForTick) => ENABLED TickStart)

\* a tick failed in an active session whose interval is still installed
C14_Witness ==
  /\ ev.kind = "tickAuthFail" /\ isCallActive /\ effect.on
  /\ channelId # NoChannel /\ ticks = EmptyBag

\* C15: when Start Call activates the session both counters are 0, and from
\* then on only the ticks of this session raise totalTransferred (so that its
\* first successful tick yields 1): while the session is active, a step raises
\* totalTransferred only by committing a tick of the session's own channel.
C15_SessionStartsFromZero ==
  /\ [](ev.kind = "started" =>
          totalTransferred = 0 /\ lastAuthorizedAmount = 0)
  /\ [][(isCallActive /\ isCallActive' /\ totalTransferred' > totalTransferred)
          => (ev'.kind = "tickCommit" /\ ev'.chan = effect.chan)]_vars

\* C16: whenever the session is active, channelId is not null.
C16_ActiveHasChannel == isCallActive => channelId # NoChannel

\* C17: verifyPaymentChannelClaim returns a boolean in every case: true
\* exactly when it sent the request and the answer has signature_verified;
\* false when the flag is false or missing, when the request threw, and,
\* without sending anything, when client, wallet or channel is missing.
C17_VerifyReturnsBoolean ==
  ev.kind = "verifyCall" =>
    /\ ev.result \in BOOLEAN
    /\ ev.result <=> (ev.req = "verify" /\ ev.resp = "verified")
    /\ ev.req = "verify" <=> (ready /\ channelId # NoChannel)

\* the gateway call threw and the function returned false
C17_Witness ==
  ev.kind = "verifyCall" /\ ev.resp = "throw" /\ ev.result = FALSE

\* C18: authorizePaymentChannelClaim returns the claim (signature, amount in
\* drops) exactly when it sent the request and the answer carries a
\* signature, and null otherwise; the call sends nothing but channel_authorize
\* and leaves channelId, totalTransferred, lastAuthorizedAmount, isCallActive
\* and the ledger as they were.
C18_AuthorizeFrame ==
  /\ [](ev.kind = "authorizeCall" =>
          /\ (ev.result # NoClaim) <=> (ev.req = "authorize" /\ ev.resp = "signature")
          /\ ev.req = "authorize" <=> (ready /\ channelId # NoChannel)
          /\ ev.req \in {"authorize", "none"}
          /\ ev.result # NoClaim =>
                /\ ev.result.amount = ev.amount
                /\ ev.result.signature = Sign(channelId, ev.amount))
  /\ [][ev'.kind = "authorizeCall" =>
          UNCHANGED <<channelId, totalTransferred, lastAuthorizedAmount,
                      isCallActive, ledgerOpen>>]_vars

\* the answer had no signature and the function returned null
C18_Witness ==
  /\ ev.kind = "authorizeCall" /\ ev.resp = "noSignature"
  /\ ev.result = NoClaim /\ totalTransferred > 0 /\ isCallActive

\* C19: against the consistent gateway, verifying the signature and amount
\* that authorizePaymentChannelClaim returned yields true, for every amount
\* on every open channel.
C19_RoundTrip == ev.kind = "roundTrip" => ev.result = TRUE

\* the round trip was made for an amount of 2 XRP
C19_Witness ==
  ev.kind = "roundTrip" /\ ev.amount = XrpToDrops(2) /\ ev.result = TRUE

\* C20: every amount sent to the gateway is the XRP amount times 1,000,000:
\* the authorize request of a tick and of End Call, the verify request, which
\* carries the amount of the returned claim unchanged, and the Amount and
\* Balance of the claim transaction, which are that same value.
C20_DropsAcrossGateway ==
  /\ ev.kind = "tickStart" =>
        \E t \in BagToSet(ticks) :
          t.pc = "auth" /\ t.chan = ev.chan /\ ev.amount = t.next * 1000000
  /\ (ev.kind = "endClick" /\ ev.req = "authorize") =>
        ev.amount = totalTransferred * 1000000
  /\ (ev.kind = "authorized" /\ ev.src = "tick") =>
        \E t \in BagToSet(ticks) :
          /\ t.pc = "verify" /\ t.chan = ev.chan
          /\ t.claim.amount = t.next * 1000000
          /\ ev.amount = t.claim.amount
  /\ (ev.kind = "authorized" /\ ev.src = "end") =>
        \E e \in BagToSet(ends) :
          /\ e.pc = "verify" /\ e.chan = ev.chan
          /\ e.claim.amount = e.total * 1000000
          /\ ev.amount = e.claim.amount
  /\ ev.req = "claimTx" =>
        \E e \in BagToSet(ends) :
          /\ e.pc = "claim" /\ e.chan = ev.chan
          /\ e.claim.amount = e.total * 1000000
          /\ ev.amount = e.claim.amount
          /\ ClaimTx(e.chan, e.claim.signature, e.claim.amount).Amount = e.claim.amount
          /\ ClaimTx(e.chan, e.claim.signature, e.claim.amount).Balance = e.claim.amount

\* End Call submits the claim transaction for 2 XRP as 2,000,000 drops
C20_Witness ==
  /\ ev.req = "claimTx" /\ ev.amount = 2000000
  /\ \E e \in BagToSet(ends) : e.pc = "claim" /\ e.total = 2

\* C21: a display-timer tick adds 1 to time and changes nothing else of the
\* component; no step of a transfer tick changes time; the timer fires and
\* transfer ticks start only while isCallActive is true and isLoading is
\* false, which is also the only time the intervals are installed.
C21_TriggersShareNothing ==
  /\ [][ev'.kind = "timer" =>
          /\ time' = time + 1
          /\ UNCHANGED <<isLoading, ready, isCallActive, channelId,
                         totalTransferred, lastAuthorizedAmount, effect, ticks,
                         starts, ends, ledgerOpen>>]_vars
  /\ [][ev'.src = "tick" => UNCHANGED time]_vars
  /\ [][ev'.kind \in {"timer", "tickStart", "tickNoop"} =>
          (isCallActive /\ ~isLoading)]_vars
  /\ [](effect.on <=> (isCallActive /\ ~isLoading))

\* the display timer ticked while a transfer tick was awaiting the gateway
C21_Witness ==
  ev.kind = "timer" /\ time = 1 /\ ticks # EmptyBag

\* C22: at most one Start Call or End Call handler is awaiting the gateway
\* at any time.
C22_LifecycleOpsExclusive == OpsInFlight <= 1

\* C23: every channel that is open on the ledger is the value of channelId.
C23_NoLostChannel == ledgerOpen \subseteq {channelId}

\* C24: the amount of the claim transaction that End Call submits is at most
\* the highest amount that a tick authorized and verified on that channel.
C24_FinalClaimWasVerified ==
  ev.req = "claimTx" => ev.amount <= audit.verified[ev.chan]

\* C25: totalTransferred is TRANSFER_AMOUNT times the number of ticks that
\* committed since it was last reset, whatever the number of ticks in flight
\* and the order of their answers.
C25_NoLostUpdate ==
  totalTransferred = TRANSFER_AMOUNT * audit.commits

\* a tick committed while another tick, started before that commit, was
\* awaiting its verification
C25_Witness ==
  /\ ev.kind = "tickCommit" /\ audit.commits = 1 /\ totalTransferred = 1
  /\ \E t \in BagToSet(ticks) : t.pc = "verify"

\* C26: when End Call finishes, isCallActive is false and time,
\* totalTransferred and lastAuthorizedAmount are 0, whether the close
\* transaction succeeded or not; channelId is null after a successful close
\* and unchanged after a failed one.
C26_EndCallEndState ==
  /\ [](ev.kind \in {"closed", "closeFailed"} =>
          /\ ~isCallActive
          /\ time = 0 /\ totalTransferred = 0 /\ lastAuthorizedAmount = 0)
  /\ [](ev.kind = "closed" => channelId = NoChannel)
  /\ [][ev'.kind = "closeFailed" => UNCHANGED channelId]_vars

\* C27: End Call clicked without client, wallets or channelId sets
\* isCallActive to false and time to 0 and does nothing else: no handler is
\* left awaiting the gateway, no request is made, and channelId,
\* totalTransferred, lastAuthorizedAmount and the ledger are unchanged.
C27_EndWithoutChannel ==
  /\ [][ev'.kind = "endNoChannel" =>
          /\ ~isCallActive' /\ time' = 0
          /\ ev'.req = "none"
          /\ UNCHANGED <<channelId, totalTransferred, lastAuthorizedAmount,
                         ticks, starts, ends, ledgerOpen>>]_vars
  /\ [][(ev'.kind \in {"endClick", "endNoChannel"}
            /\ (~ready \/ channelId = NoChannel))
          => ev'.kind = "endNoChannel"]_vars

\* End Call was clicked in an active session whose channelId was null
C27_Witness ==
  /\ ev.kind = "endNoChannel" /\ ~isCallActive /\ channelId = NoChannel
  /\ time = 0 /\ totalTransferred = 0 /\ ends = EmptyBag

\* C28: after a tick committed, lastAuthorizedAmount is the amount of the
\* claim that tick authorized, and it is 0 only while no tick has committed
\* since the last reset.
C28_LastAuthorizedMirrors ==
  /\ ev.kind = "tickCommit" => XrpToDrops(lastAuthorizedAmount) = ev.amount
  /\ lastAuthorizedAmount = 0 => audit.commits = 0

TransactionIds(list) == {list[i].id : i \in 1..Len(list)}

\* C29: the list holds at most MAX_TRANSACTIONS transactions, newest first;
\* the status of a listed transaction changes only from pending to completed
\* or to failed, so once at most; and a transaction enters the list only as
\* the new pending transaction of the transfer that just started, at the
\* front, so one that left the list never comes back.
C29_TransactionList ==
  /\ [](Len(transactions) <= MAX_TRANSACTIONS)
  /\ [](\A i, j \in 1..Len(transactions) :
          i < j => transactions[i].id > transactions[j].id)
  /\ [](\A i \in 1..Len(transactions) : transactions[i].id < clock)
  /\ [][\A i \in 1..Len(transactions), j \in 1..Len(transactions') :
          (transactions[i].id = transactions'[j].id
             /\ transactions[i].status # transactions'[j].status)
          => /\ transactions[i].status = "pending"
             /\ transactions'[j].status \in {"completed", "failed"}]_vars
  /\ [][\A j \in 1..Len(transactions') :
          transactions'[j].id \notin TransactionIds(transactions)
          => /\ j = 1
             /\ transactions'[j] = [id |-> clock, status |-> "pending"]
             /\ ev'.kind = "transferStart"]_vars

\* a transfer completed after its transaction, still pending, had been
\* pushed out of the full list by newer ones
C29_Witness ==
  /\ ev.kind = "transferCompleted"
  /\ ev.id \notin TransactionIds(transactions)
  /\ Len(transactions) = MAX_TRANSACTIONS
  /\ isCallActive

====
